---- MODULE Spec2Model ----
(***************************************************************************)
(* Model of the retort generator's streaming route (src/unnamed/part_000): *)
(* the POST handler's candidate loop, the server-sent-event decode loop,   *)
(* the reply extractor (collectReplies and its strategies) and the NDJSON  *)
(* frames written to the output stream.                                    *)
(*                                                                         *)
(* Text is a sequence of tokens.  A token stands for one character, except *)
(* the tokens named below that stand for a fixed run of characters.        *)
(***************************************************************************)
EXTENDS Integers, Sequences, FiniteSets, TLC

\* ---------------------------------------------------------------- bounds
\* Longest configured candidate list.
MaxModels == 2
\* Most chunks one upstream body delivers before it ends or fails.
MaxReads == 2

\* ---------------------------------------------------------------- tokens
LB == "["
RB == "]"
CM == ","
\* the double-quote character
DQ == "dq"
\* one space
SP == "sp"
\* one line feed
NL == "nl"
\* the seven characters <think>
TO == "<think>"
\* the eight characters </think>
TC == "</think>"
\* the digit 1
D1 == "1"
\* a six-character Chinese sentence ending in a full-width exclamation mark
SENT == "S"
\* the four characters JSON
KW == "JSON"

\* The letters "A", "B", "C" are tokens of one character each.

\* Number of UTF-16 code units a token stands for (String.prototype.length).
TokLen(c) ==
  CASE c = TO -> 7
    [] c = TC -> 8
    [] c = SENT -> 6
    [] c = KW -> 4
    [] OTHER -> 1

RECURSIVE CharLen(_)
CharLen(s) == IF s = <<>> THEN 0 ELSE TokLen(Head(s)) + CharLen(Tail(s))

SetMin(S) == CHOOSE x \in S : \A y \in S : x <= y
SetMax(S) == CHOOSE x \in S : \A y \in S : x >= y

\* String.prototype.trim: white space removed at both ends.
IsWs(c) == c \in {SP, NL}

Trim(s) ==
  LET idx == {k \in 1..Len(s) : ~IsWs(s[k])}
  IN IF idx = {} THEN <<>> ELSE SubSeq(s, SetMin(idx), SetMax(idx))

Slice3MutAll(s) == s

\* Array.prototype.slice(0, 3)
Slice3(s) == IF Len(s) <= 3 THEN s ELSE SubSeq(s, 1, 3)

\* ------------------------------------------------------- sanitizeContent
\* raw.replace(/<think\b[^>]*>[\s\S]*?<\/think>/gi, ""): each opening tag
\* together with the text up to the first closing tag after it is removed,
\* scanning left to right; an opening tag with no closing tag after it
\* matches nothing.
RECURSIVE RemoveThink(_)
RemoveThink(s) ==
  LET opens == {k \in 1..Len(s) : s[k] = TO}
  IN IF opens = {} THEN s
     ELSE LET a == SetMin(opens)
              closes == {k \in (a + 1)..Len(s) : s[k] = TC}
          IN IF closes = {} THEN s
             ELSE LET b == SetMin(closes)
                  IN SubSeq(s, 1, a - 1) \o RemoveThink(SubSeq(s, b + 1, Len(s)))

sanitizeContent(raw) == IF raw = <<>> THEN <<>> ELSE Trim(RemoveThink(raw))

\* ------------------------------------------------------------ JSON.parse
\* JSON.parse restricted to the token alphabet: strings, numbers made of
\* digits, arrays of values; white space between tokens.  A parse result is
\* [ok, next, kind, str, items]; items of an array are [kind, str].
ParseFail == [ok |-> FALSE, next |-> 0, kind |-> "none", str |-> <<>>, items |-> <<>>]

SkipWs(t, i) ==
  LET rest == {k \in i..Len(t) : ~IsWs(t[k])}
  IN IF rest = {} THEN Len(t) + 1 ELSE SetMin(rest)

ParseString(t, i) ==
  LET ends == {k \in (i + 1)..Len(t) : t[k] = DQ}
  IN IF ends = {} THEN ParseFail
     ELSE LET j == SetMin(ends)
          IN IF \E k \in (i + 1)..(j - 1) : t[k] = NL THEN ParseFail
             ELSE [ok |-> TRUE, next |-> j + 1, kind |-> "string",
                   str |-> SubSeq(t, i + 1, j - 1), items |-> <<>>]

ParseNumber(t, i) ==
  LET stop == {k \in i..Len(t) : t[k] # D1}
  IN [ok |-> TRUE, next |-> IF stop = {} THEN Len(t) + 1 ELSE SetMin(stop),
      kind |-> "number", str |-> <<>>, items |-> <<>>]

RECURSIVE ParseValue(_, _)
RECURSIVE ParseElems(_, _, _)

ParseArray(t, i) ==
  LET j == SkipWs(t, i + 1)
  IN IF j > Len(t) THEN ParseFail
     ELSE IF t[j] = RB
          THEN [ok |-> TRUE, next |-> j + 1, kind |-> "array", str |-> <<>>, items |-> <<>>]
          ELSE ParseElems(t, j, <<>>)

ParseElems(t, j, acc) ==
  LET v == ParseValue(t, j)
  IN IF ~v.ok THEN ParseFail
     ELSE LET k == SkipWs(t, v.next)
              acc2 == Append(acc, [kind |-> v.kind, str |-> v.str])
          IN IF k > Len(t) THEN ParseFail
             ELSE IF t[k] = RB
                  THEN [ok |-> TRUE, next |-> k + 1, kind |-> "array",
                        str |-> <<>>, items |-> acc2]
                  ELSE IF t[k] = CM THEN ParseElems(t, SkipWs(t, k + 1), acc2)
                       ELSE ParseFail

ParseValue(t, i) ==
  IF i > Len(t) THEN ParseFail
  ELSE IF t[i] = DQ THEN ParseString(t, i)
  ELSE IF t[i] = LB THEN ParseArray(t, i)
  ELSE IF t[i] = D1 THEN ParseNumber(t, i)
  ELSE ParseFail

JsonParse(t) ==
  LET v == ParseValue(t, SkipWs(t, 1))
  IN IF v.ok /\ SkipWs(t, v.next) = Len(t) + 1 THEN v ELSE ParseFail

\* ------------------------------------------------------ tryParseJsonArray
RECURSIVE FilterStrings(_)
FilterStrings(items) ==
  IF items = <<>> THEN <<>>
  ELSE IF Head(items).kind = "string"
       THEN <<Head(items).str>> \o FilterStrings(Tail(items))
       ELSE FilterStrings(Tail(items))

RECURSIVE FilterNonEmpty(_)
FilterNonEmpty(ss) ==
  IF ss = <<>> THEN <<>>
  ELSE IF Len(Head(ss)) > 0
       THEN <<Head(ss)>> \o FilterNonEmpty(Tail(ss))
       ELSE FilterNonEmpty(Tail(ss))

TrimAll(ss) == [k \in 1..Len(ss) |-> Trim(ss[k])]

tryParseJsonArray(raw) ==
  IF raw = <<>> THEN <<>>
  ELSE LET parsed == JsonParse(raw)
       IN IF parsed.ok /\ parsed.kind = "array"
          THEN Slice3(FilterNonEmpty(TrimAll(FilterStrings(parsed.items))))
          ELSE <<>>

\* ------------------------------------------------ extractJsonArrayFromText
\* null is the empty text: the caller only tests the result for truthiness.
extractJsonArrayFromText(raw) ==
  LET starts == {k \in 1..Len(raw) : raw[k] = LB}
      ends == {k \in 1..Len(raw) : raw[k] = RB}
  IN IF starts = {} \/ ends = {} THEN <<>>
     ELSE IF SetMax(ends) <= SetMin(starts) THEN <<>>
          ELSE SubSeq(raw, SetMin(starts), SetMax(ends))

\* ----------------------------------------------------------- isLikelyReply
\* /[。？！?!…～~]/ : of the alphabet only SENT holds such a character.
hasSentencePunctuation(line) == \E k \in 1..Len(line) : line[k] = SENT
\* /[一-龥]/
hasChinese(line) == \E k \in 1..Len(line) : line[k] = SENT

\* The disallowed starts are Chinese words outside the alphabet.
isLikelyReply(line) ==
  IF CharLen(line) < 6 THEN FALSE
  ELSE IF hasSentencePunctuation(line) THEN TRUE
  ELSE hasChinese(line) /\ CharLen(line) >= 8

\* ------------------------------------------------------------ fallbackSplit
\* raw.split(/\n+/)
RECURSIVE SplitLines(_)
SplitLines(s) ==
  LET nls == {k \in 1..Len(s) : s[k] = NL}
  IN IF nls = {} THEN <<s>>
     ELSE LET a == SetMin(nls)
              after == {k \in a..Len(s) : s[k] # NL}
          IN IF after = {} THEN <<SubSeq(s, 1, a - 1), <<>>>>
             ELSE <<SubSeq(s, 1, a - 1)>> \o SplitLines(SubSeq(s, SetMin(after), Len(s)))

\* line.replace(/^[\s\d\-•、.]+/, "").trim()
StripMarkers(line) ==
  LET keep == {k \in 1..Len(line) : line[k] \notin {SP, NL, D1}}
  IN IF keep = {} THEN <<>> ELSE Trim(SubSeq(line, SetMin(keep), Len(line)))

\* Of the forbidden patterns only the two think tags are in the alphabet.
matchesForbiddenPattern(line) == line[1] = TO \/ line[1] = TC
\* Of the forbidden keywords only JSON is in the alphabet.
hasForbiddenKeyword(line) == \E k \in 1..Len(line) : line[k] = KW

keepLine(line) ==
  /\ Len(line) > 0
  /\ ~matchesForbiddenPattern(line)
  /\ ~hasForbiddenKeyword(line)
  /\ isLikelyReply(line)

RECURSIVE FilterLines(_)
FilterLines(ls) ==
  IF ls = <<>> THEN <<>>
  ELSE IF keepLine(Head(ls))
       THEN <<Head(ls)>> \o FilterLines(Tail(ls))
       ELSE FilterLines(Tail(ls))

fallbackSplit(raw) ==
  IF raw = <<>> THEN <<>>
  ELSE LET ls == SplitLines(raw)
       IN Slice3(FilterLines([k \in 1..Len(ls) |-> StripMarkers(ls[k])]))

collectRepliesMutLinesFirst(rawContent) ==
  LET sanitized == sanitizeContent(rawContent)
      lines == fallbackSplit(sanitized)
  IN IF Len(lines) > 0 THEN lines ELSE tryParseJsonArray(sanitized)

\* ----------------------------------------------------------- collectReplies
collectReplies(rawContent) ==
  LET sanitized == sanitizeContent(rawContent)
      parsed == tryParseJsonArray(sanitized)
  IN IF Len(parsed) > 0 THEN parsed
     ELSE LET extracted == extractJsonArrayFromText(sanitized)
              extractedParsed == tryParseJsonArray(extracted)
          IN IF extracted # <<>> /\ Len(extractedParsed) > 0 THEN extractedParsed
             ELSE fallbackSplit(sanitized)

arraysEqual(a, b) ==
  IF Len(a) # Len(b) THEN FALSE
  ELSE \A k \in 1..Len(a) : a[k] = b[k]

\* ------------------------------------------------------ provider messages
\* An error message is a text whose tokens are words and spaces.
\* String.prototype.toLowerCase, word by word.
LowerWord(w) ==
  CASE w = "Provider" -> "provider"
    [] w = "No" -> "no"
    [] w = "Upstream" -> "upstream"
    [] w = "Temporarily" -> "temporarily"
    [] w = "Unauthorized" -> "unauthorized"
    [] OTHER -> w

toLowerCase(s) == [k \in 1..Len(s) |-> LowerWord(s[k])]

\* String.prototype.includes
includes(s, part) ==
  \E k \in 1..(Len(s) - Len(part) + 1) : SubSeq(s, k, k + Len(part) - 1) = part

PhraseProviderReturnedError == <<"provider", SP, "returned", SP, "error">>
PhraseNoEndpointsFound == <<"no", SP, "endpoints", SP, "found">>
PhraseUpstreamError == <<"upstream", SP, "error">>
PhraseTemporarilyUnavailable == <<"temporarily", SP, "unavailable">>

\* The fixed Chinese messages of the route, one token each.
MsgRequestFailed == <<"MSG_REQUEST_FAILED">>
MsgEmptyResponse == <<"MSG_EMPTY_RESPONSE">>
MsgNoAnswer == <<"MSG_NO_ANSWER">>
MsgUnavailable == <<"MSG_SERVICE_UNAVAILABLE">>
\* " | " between the parts of the combined message, ": " after a model name
Separator == "SEP"
Colon == ": "

\* -------------------------------------------------------------- shouldRetry
shouldRetryMutStatus(status, message) ==
  \/ status > 500
  \/ LET lowered == toLowerCase(message)
     IN \/ includes(lowered, PhraseProviderReturnedError)
        \/ includes(lowered, PhraseNoEndpointsFound)
        \/ includes(lowered, PhraseUpstreamError)
        \/ includes(lowered, PhraseTemporarilyUnavailable)

shouldRetryMutCase(status, message) ==
  \/ status >= 500
  \/ \/ includes(message, PhraseProviderReturnedError)
     \/ includes(message, PhraseNoEndpointsFound)
     \/ includes(message, PhraseUpstreamError)
     \/ includes(message, PhraseTemporarilyUnavailable)

shouldRetry(status, message) ==
  \/ status >= 500
  \/ LET lowered == toLowerCase(message)
     IN \/ includes(lowered, PhraseProviderReturnedError)
        \/ includes(lowered, PhraseNoEndpointsFound)
        \/ includes(lowered, PhraseUpstreamError)
        \/ includes(lowered, PhraseTemporarilyUnavailable)

\* ------------------------------------------------------ error body, safeRead
\* A JSON value's field: absent, a string v, or an object that may hold a
\* string field message (has) with value v.
Absent == [t |-> "absent", has |-> FALSE, v |-> <<>>]
Str(m) == [t |-> "string", has |-> FALSE, v |-> m]
ObjMsg(m) == [t |-> "object", has |-> TRUE, v |-> m]
ObjNoMsg == [t |-> "object", has |-> FALSE, v |-> <<>>]

\* A parsed error payload: an object with fields error and message, or null.
ErrObject(e, m) == [t |-> "object", error |-> e, message |-> m]
NullPayload == [t |-> "null", error |-> Absent, message |-> Absent]

\* A response body: valid JSON text of a payload, text that is not JSON, or
\* a body whose read fails.
JsonBody(p) == [kind |-> "json", payload |-> p, text |-> <<>>]
TextBody(m) == [kind |-> "text", payload |-> NullPayload, text |-> m]
FailBody == [kind |-> "fail", payload |-> NullPayload, text |-> <<>>]

\* response.json(): reads the body to its end (from then on it is used) and
\* parses it.
responseJson(body) ==
  [ok |-> body.kind = "json", value |-> body.payload, used |-> TRUE]

\* response.text(): rejects when the body was already used.
responseText(body, used) ==
  [ok |-> ~used /\ body.kind # "fail", value |-> body.text]

safeRead(body) ==
  LET j == responseJson(body)
  IN IF j.ok THEN j.value
     ELSE LET x == responseText(body, j.used)
          IN IF x.ok THEN ErrObject(Str(x.value), Absent) ELSE NullPayload

extractErrorMessage(payload) ==
  LET error == payload.error
      viaError ==
        IF payload.t = "object" /\ error.t # "absent"
        THEN IF error.t = "string" /\ Trim(error.v) # <<>> THEN Trim(error.v)
             ELSE IF error.t = "object" /\ error.has /\ Trim(error.v) # <<>>
                  THEN Trim(error.v)
                  ELSE <<>>
        ELSE <<>>
      viaMessage ==
        IF payload.t = "object" /\ payload.message.t = "string"
           /\ Trim(payload.message.v) # <<>>
        THEN Trim(payload.message.v)
        ELSE <<>>
  IN IF viaError # <<>> THEN viaError
     ELSE IF viaMessage # <<>> THEN viaMessage
     ELSE MsgRequestFailed

\* ---------------------------------------------------- streaming payloads
\* A content value: a string, a list of parts, an object with a string field
\* text, an object without one, null or absent.  A part of a list is itself
\* a string, an object with a string field text, or anything else.
CNone == [t |-> "absent", v |-> <<>>, parts |-> <<>>]
CStr(x) == [t |-> "string", v |-> x, parts |-> <<>>]
CObject == [t |-> "object", v |-> <<>>, parts |-> <<>>]
CTextObj(x) == [t |-> "textobj", v |-> x, parts |-> <<>>]
CParts(ps) == [t |-> "parts", v |-> <<>>, parts |-> ps]

\* the value one item of the list maps to
PartText(item) == IF item.t \in {"string", "textobj"} THEN item.v ELSE <<>>

\* raw.map(...).join("\n")
RECURSIVE JoinParts(_)
JoinParts(ps) ==
  IF ps = <<>> THEN <<>>
  ELSE IF Len(ps) = 1 THEN PartText(ps[1])
  ELSE PartText(ps[1]) \o <<NL>> \o JoinParts(Tail(ps))

extractMessageContent(raw) ==
  IF raw.t = "string" THEN raw.v
  ELSE IF raw.t = "parts" THEN JoinParts(raw.parts)
  ELSE IF raw.t = "textobj" THEN raw.v
  ELSE <<>>

\* A parsed streaming payload.  deltaObj: choices[0] has a non-null object
\* delta; hasContent: that delta has the key content, of value content;
\* messageObj: choices[0] has a message whose typeof is object, of value
\* message; mcontent: the content field of that message.
Payload(hasChoices, deltaObj, hasContent, content, messageObj, message, mcontent) ==
  [hasChoices |-> hasChoices, deltaObj |-> deltaObj, hasContent |-> hasContent,
   content |-> content, messageObj |-> messageObj, message |-> message,
   mcontent |-> mcontent]

DeltaPayload(x) == Payload(TRUE, TRUE, TRUE, CStr(x), FALSE, CNone, CNone)
MessagePayload(x) == Payload(TRUE, FALSE, FALSE, CNone, TRUE, CObject, CStr(x))
NoPayload == Payload(FALSE, FALSE, FALSE, CNone, FALSE, CNone, CNone)

extractDeltaText(payload) ==
  IF payload.hasChoices
  THEN IF payload.deltaObj /\ payload.hasContent
       THEN extractMessageContent(payload.content)
       ELSE IF payload.messageObj THEN extractMessageContent(payload.message)
            ELSE <<>>
  ELSE <<>>

\* ------------------------------------------------------------ wire items
\* The upstream body is a sequence of wire items: a line feed, a space, the
\* prefix data:, the sentinel [DONE], the complete JSON text of a payload,
\* the first or the second part of such a text cut in two, or other text.
W(k, p) == [k |-> k, p |-> p]
WNL == W("nl", NoPayload)
WSP == W("sp", NoPayload)
WDATA == W("data:", NoPayload)
WDONE == W("[DONE]", NoPayload)
WTXT == W("text", NoPayload)
WJSON(p) == W("json", p)
WHEAD(p) == W("head", p)
WTAIL(p) == W("tail", p)

\* the buffer split at every line feed instead of every blank line
RECURSIVE SplitEventsMutLines(_)
SplitEventsMutLines(s) ==
  LET at == {k \in 1..Len(s) : s[k] = WNL}
  IN IF at = {} THEN <<s>>
     ELSE LET a == SetMin(at)
          IN <<SubSeq(s, 1, a - 1)>>
             \o SplitEventsMutLines(SubSeq(s, a + 1, Len(s)))

\* buffer.split("\n\n")
RECURSIVE SplitEvents(_)
SplitEvents(s) ==
  LET at == {k \in 1..(Len(s) - 1) : s[k] = WNL /\ s[k + 1] = WNL}
  IN IF at = {} THEN <<s>>
     ELSE LET a == SetMin(at)
          IN <<SubSeq(s, 1, a - 1)>> \o SplitEvents(SubSeq(s, a + 2, Len(s)))

\* event.split("\n")
RECURSIVE SplitWireLines(_)
SplitWireLines(s) ==
  LET at == {k \in 1..Len(s) : s[k] = WNL}
  IN IF at = {} THEN <<s>>
     ELSE LET a == SetMin(at)
          IN <<SubSeq(s, 1, a - 1)>> \o SplitWireLines(SubSeq(s, a + 1, Len(s)))

TrimWire(s) ==
  LET idx == {k \in 1..Len(s) : s[k] \notin {WSP, WNL}}
  IN IF idx = {} THEN <<>> ELSE SubSeq(s, SetMin(idx), SetMax(idx))

\* JSON.parse(data) of a data line's payload text
parseData(data) ==
  IF Len(data) = 1 /\ data[1].k = "json" THEN [ok |-> TRUE, p |-> data[1].p]
  ELSE IF Len(data) = 2 /\ data[1].k = "head" /\ data[2].k = "tail"
          /\ data[1].p = data[2].p
       THEN [ok |-> TRUE, p |-> data[1].p]
       ELSE [ok |-> FALSE, p |-> NoPayload]

\* ------------------------------------------------------------------ frames
ModelFrame(m) == [type |-> "model", model |-> m]
PartialFrame(r) == [type |-> "partial", replies |-> r]
CompleteFrame(r) == [type |-> "complete", replies |-> r]
ErrorFrame(e, s) == [type |-> "error", error |-> e, status |-> s]

IsTerminal(f) == f.type \in {"complete", "error"}

\* ------------------------------------------------------------ flushPartial
\* The attempt's streaming state: st = [aggregated, lastSent, sent], sent
\* being the frames written while the chunk is processed.
flushPartialMutNoDedup(st) ==
  LET replies == collectReplies(st.aggregated)
  IN IF Len(replies) = 0 THEN st
     ELSE [st EXCEPT !.lastSent = replies,
                     !.sent = Append(@, PartialFrame(replies))]

\* flushPartial sending a frame only while nothing was sent yet
flushPartialMutFirstOnly(st) ==
  LET replies == collectReplies(st.aggregated)
  IN IF Len(replies) = 0 THEN st
     ELSE IF st.lastSent # <<>> THEN st
     ELSE [st EXCEPT !.lastSent = replies,
                     !.sent = Append(@, PartialFrame(replies))]

flushPartial(st) ==
  LET replies == collectReplies(st.aggregated)
  IN IF Len(replies) = 0 THEN st
     ELSE IF arraysEqual(replies, st.lastSent) THEN st
     ELSE [st EXCEPT !.lastSent = replies,
                     !.sent = Append(@, PartialFrame(replies))]

\* The body of the loop over the lines of an event.
processLine(rawLine, st) ==
  LET line == TrimWire(rawLine)
  IN IF line = <<>> \/ line[1] # WDATA THEN st
     ELSE LET data == TrimWire(Tail(line))
          IN IF data = <<>> \/ data = <<WDONE>> THEN st
             ELSE LET parsed == parseData(data)
                  IN IF ~parsed.ok THEN st
                     ELSE LET deltaText == extractDeltaText(parsed.p)
                          IN IF deltaText = <<>> THEN st
                             ELSE flushPartial(
                                    [st EXCEPT !.aggregated = @ \o deltaText])

RECURSIVE processLines(_, _)
processLines(lines, st) ==
  IF lines = <<>> THEN st
  ELSE processLines(Tail(lines), processLine(Head(lines), st))

RECURSIVE processEvents(_, _)
processEvents(events, st) ==
  IF events = <<>> THEN st
  ELSE processEvents(Tail(events),
                     processLines(SplitWireLines(Head(events)), st))

\* decoder.decode(value, {stream: true}): the decoder keeps the bytes of a
\* character cut by the end of the chunk and yields them with the next
\* chunk, so the text appended over the reads is the text of the body; a
\* chunk is given as the wire items its bytes complete.
decode(value) == value

\* ------------------------------------------------------- aggregated error
RECURSIVE laterParts(_)
laterParts(es) ==
  IF es = <<>> THEN <<>>
  ELSE <<(<<Head(es).model, Colon>> \o Head(es).message)>> \o laterParts(Tail(es))

\* Array.prototype.join(" | ")
RECURSIVE join(_)
join(parts) ==
  IF parts = <<>> THEN <<>>
  ELSE IF Len(parts) = 1 THEN Head(parts)
  ELSE Head(parts) \o <<Separator>> \o join(Tail(parts))

combinedMessage(errs) ==
  LET combined == join(FilterNonEmpty(<<errs[1].message>> \o laterParts(Tail(errs))))
  IN IF combined # <<>> THEN combined ELSE MsgRequestFailed

exhaustedStatusMutLast(errs) == IF Len(errs) > 0 THEN errs[Len(errs)].status ELSE 502

exhaustedStatus(errs) == IF Len(errs) > 0 THEN errs[1].status ELSE 502

exhaustedMessage(errs) == IF Len(errs) > 0 THEN combinedMessage(errs) ELSE MsgRequestFailed

\* ----------------------------------------------------------------- request
\* A JavaScript number: a finite value counted in halves (twice = 2 * value),
\* an infinity or NaN.
Fin(t) == [k |-> "fin", twice |-> t]
PosInf == [k |-> "inf", twice |-> 0]
NegInf == [k |-> "-inf", twice |-> 0]
NaN == [k |-> "nan", twice |-> 0]

Int2Num(n) == Fin(2 * n)

MIN_INTENSITY == 1
MAX_INTENSITY == 10
DEFAULT_INTENSITY == 6

\* Math.max(value, lo) and Math.min(value, hi) for a value that is not NaN
MathMax(value, lo) ==
  IF value.k = "-inf" THEN Int2Num(lo)
  ELSE IF value.k = "inf" THEN value
  ELSE IF value.twice < 2 * lo THEN Int2Num(lo) ELSE value

MathMin(value, hi) ==
  IF value.k = "inf" THEN Int2Num(hi)
  ELSE IF value.k = "-inf" THEN value
  ELSE IF value.twice > 2 * hi THEN Int2Num(hi) ELSE value

clampIntensity(value) ==
  IF value.k = "nan" THEN Int2Num(DEFAULT_INTENSITY)
  ELSE MathMin(MathMax(value, MIN_INTENSITY), MAX_INTENSITY)

\* The characters of an intensity string: digits, signs, a point, a letter
\* and the blank.
Digits == <<"0", "1", "2", "3", "4", "5", "6", "7", "8", "9">>

IsDigit(c) == \E d \in 1..10 : Digits[d] = c

DigitValue(c) == (CHOOSE d \in 1..10 : Digits[d] = c) - 1

RECURSIVE DigitRun(_)
DigitRun(s) ==
  IF s = <<>> \/ ~IsDigit(Head(s)) THEN <<>>
  ELSE <<Head(s)>> \o DigitRun(Tail(s))

RECURSIVE DigitsValue(_, _)
DigitsValue(ds, acc) ==
  IF ds = <<>> THEN acc
  ELSE DigitsValue(Tail(ds), 10 * acc + DigitValue(Head(ds)))

RECURSIVE SkipLeadingWs(_)
SkipLeadingWs(s) ==
  IF s # <<>> /\ IsWs(Head(s)) THEN SkipLeadingWs(Tail(s)) ELSE s

\* Number.parseInt(string, 10): leading white space, a sign, then the
\* longest run of digits; NaN when there is no digit there.
parseInt(string) ==
  LET s == SkipLeadingWs(string)
      signed == s # <<>> /\ Head(s) \in {"-", "+"}
      negative == s # <<>> /\ Head(s) = "-"
      ds == DigitRun(IF signed THEN Tail(s) ELSE s)
  IN IF ds = <<>> THEN NaN
     ELSE Int2Num((IF negative THEN -1 ELSE 1) * DigitsValue(ds, 0))

\* A field of the request's JSON body: absent, a string, a number or a
\* value of another type (boolean, null, array, object).
JAbsent == [t |-> "absent", s |-> <<>>, n |-> NaN]
JString(x) == [t |-> "string", s |-> x, n |-> NaN]
JNumber(x) == [t |-> "number", s |-> <<>>, n |-> x]
JOther == [t |-> "other", s |-> <<>>, n |-> NaN]

\* await request.json(), destructured: an object with its two fields, or a
\* body that is not JSON or is null, for which the statement throws.
BodyObject(line, level) == [ok |-> TRUE, opponentLine |-> line, intensity |-> level]
BodyThrows == [ok |-> FALSE, opponentLine |-> JAbsent, intensity |-> JAbsent]

MsgNeedString == <<"MSG_NEED_STRING">>
MsgNeedInput == <<"MSG_NEED_INPUT">>
MsgNoKey == <<"MSG_NO_API_KEY">>

\* The value POST returns: NextResponse.json({error}, {status}) or the
\* streaming Response.
NoHttpResponse == [kind |-> "none", status |-> 0, error |-> <<>>]
JsonError(error, status) == [kind |-> "json", status |-> status, error |-> error]
StreamResponse == [kind |-> "stream", status |-> 200, error |-> <<>>]

isBlankMutNoTrim(line) == line = <<>>

\* !opponentLine.trim()
isBlank(line) == Trim(line) = <<>>

\* typeof intensity === "number" ? ... : typeof intensity === "string" ? ...
parseIntensity(intensity) ==
  IF intensity.t = "number" THEN clampIntensity(intensity.n)
  ELSE IF intensity.t = "string" THEN clampIntensity(parseInt(intensity.s))
  ELSE Int2Num(DEFAULT_INTENSITY)

\* ------------------------------------------------------------------ inputs
\* parseModelList yields any list of non-empty names, the empty list
\* included: here the first n of these names, in this order.
CandidateNames == <<"m1", "m2", "m3", "m4">>

ModelLists == {SubSeq(CandidateNames, 1, n) : n \in 0..MaxModels}

ErrorStatuses == {401, 429, 500, 503}

MUnauthorized == <<"Unauthorized">>
MProvider == <<"Provider", SP, "returned", SP, "error">>
MEndpoints == <<"No", SP, "endpoints", SP, "found">>
MUpstream == <<"upstream", SP, "error", SP>>
MTemporarily == <<"model", SP, "Temporarily", SP, "unavailable">>

ErrorBodies ==
  { JsonBody(ErrObject(Str(MUnauthorized), Absent)),
    JsonBody(ErrObject(ObjMsg(MProvider), Str(MUnauthorized))),
    JsonBody(ErrObject(Str(<<SP>>), Str(MEndpoints))),
    JsonBody(ErrObject(ObjNoMsg, Str(MTemporarily))),
    JsonBody(ErrObject(Absent, Absent)),
    TextBody(MUpstream),
    FailBody }

\* ["A","B","C"]
TxtArray3 == <<LB, DQ, "A", DQ, CM, DQ, "B", DQ, CM, DQ, "C", DQ, RB>>
\* a sentence and a line feed
TxtLine == <<SENT, NL>>
TxtClose == <<RB>>

Event(p) == <<WDATA, WSP, WJSON(p), WNL, WNL>>

\* What one read of the upstream body may deliver: each chunk holds at most
\* one data event.
Chunks ==
  { Event(DeltaPayload(TxtArray3)),
    Event(DeltaPayload(TxtLine)),
    Event(DeltaPayload(TxtClose)),
    <<WDATA, WSP, WDONE, WNL, WNL>> }

\* No body is being followed.
NoWire == [all |-> <<>>, pos |-> 0, half |-> FALSE]

\* The page before anything was submitted. pc tells how the last call of
\* handleSubmit stands: "idle" when there was none or it sent nothing,
\* "read" while it reads the stream, "done" once it has processed a response.
NoClient ==
  [pc |-> "idle", loading |-> FALSE, error |-> <<>>, replies |-> <<>>,
   finalReplies |-> [set |-> FALSE, list |-> <<>>], buffer |-> <<>>,
   received |-> <<>>, streamed |-> FALSE, reads |-> 0]

NoResponse == [ok |-> FALSE, status |-> 0, body |-> FailBody, hasBody |-> FALSE]

\* ------------------------------------------------------------------- state
VARIABLES
  requestJson,         \* await request.json()
  apiKey,              \* process.env.OPENROUTER_API_KEY, "" when not set
  trimmedOpponentLine,
  parsedIntensity,
  httpResponse,        \* what POST returned
  models,              \* parseModelList(MODEL_FALLBACKS)
  pc,                  \* where the handler and its start callback stand
  i,                   \* position of the for-of loop in models
  out,                 \* frames enqueued on the output stream
  closed,              \* controller.close() was called
  errors,              \* the failure records
  requests,            \* model of every provider call issued
  completionResponse,  \* the response of the last provider call
  buffer, aggregated, lastSent,
  reads,               \* chunks read from the current body
  caught,              \* the catch block ran
  upstream,            \* positions whose provider call is in flight or
                       \* whose response body is open
  cancelled,           \* the consumer cancelled the output stream
  taken,               \* frames the consumer has read from the stream
  wire,                \* the current response body and how far it was read
  client               \* the page: its state and the stream it is reading

vars == <<requestJson, apiKey, trimmedOpponentLine, parsedIntensity,
          httpResponse, models, pc, i, out, closed, errors, requests,
          completionResponse, buffer, aggregated, lastSent, reads, caught,
          upstream, cancelled, taken, wire, client>>

attemptVars == <<buffer, aggregated, lastSent, reads>>

requestVars == <<requestJson, apiKey, trimmedOpponentLine, parsedIntensity,
                 httpResponse>>

consumerVars == <<cancelled, taken>>

\* The start callback has not run yet.
InitPipeline ==
  /\ i = 1
  /\ out = <<>>
  /\ closed = FALSE
  /\ errors = <<>>
  /\ requests = <<>>
  /\ completionResponse = NoResponse
  /\ buffer = <<>>
  /\ aggregated = <<>>
  /\ lastSent = <<>>
  /\ reads = 0
  /\ caught = FALSE
  /\ upstream = {}
  /\ cancelled = FALSE
  /\ taken = 0
  /\ wire = NoWire
  /\ client = NoClient

\* POST has accepted a request and returned the stream; the start callback
\* is about to enter its loop.
Init ==
  /\ requestJson = BodyObject(JString(<<"A">>), JAbsent)
  /\ apiKey = "key"
  /\ trimmedOpponentLine = <<"A">>
  /\ parsedIntensity = Int2Num(DEFAULT_INTENSITY)
  /\ httpResponse = StreamResponse
  /\ models \in ModelLists
  /\ pc = "loop"
  /\ InitPipeline

\* send(chunk) followed by nothing else
Send(frames) == out' = out \o frames

\* controller.enqueue on a stream the consumer cancelled throws; the catch
\* block's closeWithError sends in turn, so it throws as well and the
\* start callback ends with that exception: nothing is written or closed.
SendThrows ==
  /\ caught' = TRUE
  /\ pc' = "failed"
  /\ UNCHANGED <<out, closed>>

closeWithErrorMutNoClose(frames, error, status) ==
  /\ out' = out \o frames \o <<ErrorFrame(error, status)>>
  /\ closed' = closed

\* closeWithError(error, status), after the frames already sent in the step
closeWithError(frames, error, status) ==
  /\ out' = out \o frames \o <<ErrorFrame(error, status)>>
  /\ closed' = TRUE

\* `continue`: the for-of loop moves to the next candidate.
nextCandidateMutSame(k) == k

nextCandidate(k) == k + 1

FailureRecord(model, status, message) ==
  [model |-> model, status |-> status, message |-> message]

\* for (const model of models) { send({type: "model", model}); fetch(...)
StartAttempt ==
  /\ pc = "loop"
  /\ i <= Len(models)
  /\ IF cancelled
     THEN /\ SendThrows
          /\ UNCHANGED <<requests, upstream>>
     ELSE /\ Send(<<ModelFrame(models[i])>>)
          /\ requests' = Append(requests, models[i])
          /\ upstream' = upstream \cup {i}
          /\ pc' = "fetch"
          /\ UNCHANGED <<closed, caught>>
  /\ UNCHANGED <<models, i, errors, completionResponse, attemptVars,
                 requestVars, consumerVars, wire, client>>

\* the loop is over: the aggregated error
Exhausted ==
  /\ pc = "loop"
  /\ i > Len(models)
  /\ IF cancelled
     THEN SendThrows
     ELSE /\ closeWithError(<<>>, exhaustedMessage(errors), exhaustedStatus(errors))
          /\ pc' = "done"
          /\ UNCHANGED caught
  /\ UNCHANGED <<models, i, errors, requests, completionResponse, attemptVars,
                 upstream, requestVars, consumerVars, wire, client>>

\* catch (error) { closeWithError(generic, 500) }
catchHandlerMutSilent ==
  /\ closed' = TRUE
  /\ UNCHANGED out

catchHandler == closeWithError(<<>>, MsgUnavailable, 500)

\* await fetch(...) rejects
FetchThrows ==
  /\ pc = "fetch"
  /\ IF cancelled
     THEN SendThrows
     ELSE /\ catchHandler
          /\ caught' = TRUE
          /\ pc' = "done"
  /\ upstream' = upstream \ {i}
  /\ UNCHANGED <<models, i, errors, requests, completionResponse, attemptVars,
                 requestVars, consumerVars, wire, client>>

abortStatusMutFirst(errs, status) == errs[1].status

\* closeWithError(errorMessage, completionResponse.status)
abortStatus(errs, status) == status

bodyReadMutJsonOnly(body) == body.kind = "json"

\* safeRead's response.json() reads the error body to its end, or fails
\* with the body when the body fails: either way the body is no longer open.
bodyRead(body) == responseJson(body).used

\* if (!completionResponse.ok) { ... }
FetchNotOk(status, body) ==
  /\ pc = "fetch"
  /\ completionResponse' = [ok |-> FALSE, status |-> status, body |-> body, hasBody |-> TRUE]
  /\ upstream' = IF bodyRead(body) THEN upstream \ {i} ELSE upstream
  /\ LET errorPayload == safeRead(body)
         errorMessage == extractErrorMessage(errorPayload)
         errs == Append(errors, FailureRecord(models[i], status, errorMessage))
     IN /\ errors' = errs
        /\ IF ~shouldRetry(status, errorMessage)
           THEN /\ i' = i
                /\ IF cancelled
                   THEN SendThrows
                   ELSE /\ closeWithError(<<>>, errorMessage, abortStatus(errs, status))
                        /\ pc' = "done"
                        /\ UNCHANGED caught
           ELSE /\ pc' = "loop"
                /\ i' = nextCandidate(i)
                /\ UNCHANGED <<out, closed, caught>>
  /\ UNCHANGED <<models, requests, attemptVars, requestVars, consumerVars, wire, client>>

\* if (!body) { errors.push(502 ...); continue }
FetchOkNoBody ==
  /\ pc = "fetch"
  /\ completionResponse' = [ok |-> TRUE, status |-> 200, body |-> FailBody, hasBody |-> FALSE]
  /\ errors' = Append(errors, FailureRecord(models[i], 502, MsgEmptyResponse))
  /\ upstream' = upstream \ {i}
  /\ pc' = "loop"
  /\ i' = nextCandidate(i)
  /\ UNCHANGED <<models, out, closed, requests, attemptVars, caught,
                 requestVars, consumerVars, wire, client>>

initialAggregatedMutShared(previous) == previous

\* let aggregated = "";  declared inside the loop
initialAggregated(previous) == <<>>

\* body.getReader(); buffer = ""; aggregated = ""; lastSent = []
\* with the body w that the response carries
responseWithBody(w) ==
  /\ pc = "fetch"
  /\ completionResponse' = [ok |-> TRUE, status |-> 200, body |-> FailBody, hasBody |-> TRUE]
  /\ wire' = w
  /\ buffer' = <<>>
  /\ aggregated' = initialAggregated(aggregated)
  /\ lastSent' = <<>>
  /\ reads' = 0
  /\ pc' = "read"
  /\ UNCHANGED <<models, i, out, closed, errors, requests, caught, upstream,
                 requestVars, consumerVars, client>>

\* the response has a body, whatever it holds
FetchOkBody == responseWithBody(NoWire)

retainedMutDrop(events) == <<>>

\* buffer = events.pop() ?? ""
retained(events) == events[Len(events)]

\* buffer += text: the two parts of a JSON text that a read cut are the
\* whole text again once they stand side by side.
concat(text, more) ==
  IF /\ text # <<>> /\ more # <<>>
     /\ text[Len(text)].k = "head" /\ more[1].k = "tail"
     /\ text[Len(text)].p = more[1].p
  THEN SubSeq(text, 1, Len(text) - 1) \o <<WJSON(more[1].p)>> \o Tail(more)
  ELSE text \o more

\* One turn of the while loop for a chunk that reader.read() yielded. The
\* first send on a cancelled stream throws out of the loop: the reader is
\* not cancelled and the body stays open.
readStep(value) ==
  /\ pc = "read"
  /\ reads' = reads + 1
  /\ LET text == concat(buffer, decode(value))
         events == SplitEvents(text)
         st == processEvents(SubSeq(events, 1, Len(events) - 1),
                             [aggregated |-> aggregated, lastSent |-> lastSent,
                              sent |-> <<>>])
     IN /\ buffer' = retained(events)
        /\ aggregated' = st.aggregated
        /\ lastSent' = st.lastSent
        /\ IF cancelled /\ st.sent # <<>>
           THEN SendThrows
           ELSE /\ Send(st.sent)
                /\ UNCHANGED <<pc, closed, caught>>
  /\ UNCHANGED <<models, i, errors, requests, completionResponse, upstream,
                 requestVars, consumerVars>>

\* reader.read() yields a chunk
ReadChunk(value) ==
  /\ reads < MaxReads
  /\ readStep(value)
  /\ UNCHANGED <<wire, client>>

streamSucceededMutAlways(replies) == TRUE

afterCompleteMutFallThrough == "loop"

\* controller.close(); return;  ends the start callback
afterComplete == "done"

\* replies.length === 0 is the failure branch
streamSucceeded(replies) == Len(replies) # 0

\* reader.read() yields done: the final extraction
ReadDone ==
  /\ pc = "read"
  /\ aggregated' = Trim(aggregated)
  /\ upstream' = upstream \ {i}
  /\ LET replies == collectReplies(Trim(aggregated))
     IN IF streamSucceeded(replies)
        THEN /\ UNCHANGED <<errors, i>>
             /\ IF cancelled
                THEN SendThrows
                ELSE /\ Send(<<CompleteFrame(replies)>>)
                     /\ closed' = TRUE
                     /\ pc' = afterComplete
                     /\ UNCHANGED caught
        ELSE /\ errors' = Append(errors, FailureRecord(models[i], 502, MsgNoAnswer))
             /\ pc' = "loop"
             /\ i' = nextCandidate(i)
             /\ UNCHANGED <<out, closed, caught>>
  /\ UNCHANGED <<models, requests, completionResponse, buffer, lastSent, reads,
                 requestVars, consumerVars, wire, client>>

\* reader.read() rejects
ReadThrows ==
  /\ pc = "read"
  /\ IF cancelled
     THEN SendThrows
     ELSE /\ catchHandler
          /\ caught' = TRUE
          /\ pc' = "done"
  /\ upstream' = upstream \ {i}
  /\ UNCHANGED <<models, i, errors, requests, completionResponse, attemptVars,
                 requestVars, consumerVars, wire, client>>

Next ==
  \/ StartAttempt
  \/ Exhausted
  \/ FetchThrows
  \/ \E status \in ErrorStatuses, body \in ErrorBodies : FetchNotOk(status, body)
  \/ FetchOkNoBody
  \/ FetchOkBody
  \/ \E value \in Chunks : ReadChunk(value)
  \/ ReadDone
  \/ ReadThrows

Spec == Init /\ [][Next]_vars

\* The provider call returns: it rejects or yields a response.
FetchReturns ==
  \/ FetchThrows
  \/ FetchOkNoBody
  \/ FetchOkBody
  \/ \E status \in ErrorStatuses, body \in ErrorBodies : FetchNotOk(status, body)

\* The upstream body ends: a read rejects or yields done.
ReadEnds == ReadThrows \/ ReadDone

\* The handler takes its own steps, every provider call eventually returns
\* and every upstream body eventually ends.
FairSpec ==
  /\ Spec
  /\ WF_vars(StartAttempt)
  /\ WF_vars(Exhausted)
  /\ WF_vars(FetchReturns)
  /\ WF_vars(ReadEnds)

\* ------------------------------------------------------------------ claims
Last(s) == s[Len(s)]

CountType(frames, ty) == Cardinality({k \in 1..Len(frames) : frames[k].type = ty})

RECURSIVE ModelFrameNames(_)
ModelFrameNames(frames) ==
  IF frames = <<>> THEN <<>>
  ELSE IF Head(frames).type = "model"
       THEN <<Head(frames).model>> \o ModelFrameNames(Tail(frames))
       ELSE ModelFrameNames(Tail(frames))

HasPartial == \E k \in 1..Len(out) : out[k].type = "partial"

\* The retryable signature as the specification words it.
ClaimRetryable(status, message) ==
  \/ status >= 500
  \/ \E phrase \in {PhraseProviderReturnedError, PhraseNoEndpointsFound,
                    PhraseUpstreamError, PhraseTemporarilyUnavailable} :
       includes(toLowerCase(message), phrase)

\* A non-success response was received and is the last response.
GotErrorResponse == ~completionResponse.ok /\ completionResponse.status # 0
ResponseMessage == extractErrorMessage(safeRead(completionResponse.body))

\* C1: the output stream holds at most one terminal frame (complete or
\* error); a terminal frame is the last frame written, so every model and
\* partial frame precedes it and nothing follows it; the stream is closed
\* exactly when its terminal frame is written, and the handler ends only
\* with the stream closed.
C1_OneTerminalFrameLast ==
  /\ \A k \in 1..Len(out) : IsTerminal(out[k]) => k = Len(out)
  /\ closed <=> (Len(out) > 0 /\ IsTerminal(Last(out)))
  /\ pc = "done" <=> closed

C1_Witness ==
  /\ closed
  /\ Len(requests) = 2
  /\ HasPartial
  /\ Last(out).type = "complete"

\* C2: when the provider call rejects or a read of the streaming body
\* rejects, in any attempt and whatever was already sent, the catch block
\* writes exactly one error frame, the generic one with status 500, as the
\* last frame, and closes the stream; no complete frame is written.
C2_ExceptionBecomesErrorFrame ==
  caught =>
    /\ pc = "done"
    /\ closed
    /\ Last(out) = ErrorFrame(MsgUnavailable, 500)
    /\ CountType(out, "error") = 1
    /\ CountType(out, "complete") = 0

C2_Witness ==
  /\ caught
  /\ completionResponse.ok
  /\ HasPartial
  /\ Len(requests) = 2

\* C3: the model frames name a prefix of the configured candidate list, in
\* order; one provider call is issued per model frame, for the model it
\* names; and every candidate before the one being attempted has appended
\* its failure record.
C3_CandidatesInOrderOnce ==
  LET names == ModelFrameNames(out)
  IN /\ Len(names) <= Len(models)
     /\ names = SubSeq(models, 1, Len(names))
     /\ requests = names
     /\ Len(errors) >= Len(names) - 1
     /\ \A k \in 1..(Len(names) - 1) : errors[k].model = models[k]

C3_Witness ==
  /\ pc = "fetch"
  /\ ModelFrameNames(out) = <<"m1", "m2">>
  /\ Len(errors) = 1

\* C4: under FairSpec every request ends: eventually and for ever the
\* handler is done, the stream is closed behind a terminal frame, no more
\* provider calls were issued than there are candidates, and a request
\* that exhausted its candidates ended with the one aggregated error frame.
C4_Terminates ==
  <>[](/\ pc = "done"
       /\ closed
       /\ Len(out) > 0
       /\ IsTerminal(Last(out))
       /\ Len(requests) <= Len(models)
       /\ (i > Len(models) =>
             /\ CountType(out, "error") = 1
             /\ Last(out) = ErrorFrame(exhaustedMessage(errors), exhaustedStatus(errors))))

C4_Witness ==
  /\ pc = "done"
  /\ closed
  /\ i > Len(models)
  /\ Len(requests) = 2
  /\ Len(errors) = 2
  /\ Last(out).type = "error"

\* C5: retryable failures are not shown to the caller.  A request whose
\* last candidate's stream ended with a non-empty final extraction has one
\* model frame per failed candidate plus one, ends in complete and holds no
\* error frame; every failure record that was passed over is retryable; and
\* an error frame written outside the catch block stands either for the
\* exhaustion of the list or for a failure that is not retryable.
C5_RetryableFailuresInvisible ==
  /\ (/\ pc = "done"
      /\ ~caught
      /\ completionResponse.ok
      /\ completionResponse.hasBody
      /\ Len(collectReplies(aggregated)) > 0)
     => /\ CountType(out, "model") = Len(errors) + 1
        /\ Last(out).type = "complete"
        /\ CountType(out, "error") = 0
  /\ \A k \in 1..(i - 1) : ClaimRetryable(errors[k].status, errors[k].message)
  /\ (pc = "done" /\ ~caught /\ Last(out).type = "error")
     => \/ i > Len(models)
        \/ ~ClaimRetryable(Last(errors).status, Last(errors).message)

\* a 5xx on the first candidate, a streamed array on the second
C5_Witness ==
  /\ pc = "done"
  /\ Len(errors) = 1
  /\ errors[1].status = 503
  /\ CountType(out, "model") = 2
  /\ Last(out) = CompleteFrame(<<<<"A">>, <<"B">>, <<"C">>>>)

\* C6: after a non-success response that is not retryable the request is
\* over: the last frame is the error frame with that response's status and
\* extracted message, and the candidate that received it is the last one
\* attempted.
C6_NonRetryableAborts ==
  (GotErrorResponse /\ ~ClaimRetryable(completionResponse.status, ResponseMessage))
  => /\ pc = "done"
     /\ closed
     /\ Last(out) = ErrorFrame(ResponseMessage, completionResponse.status)
     /\ CountType(out, "error") = 1
     /\ Len(requests) = i
     /\ CountType(out, "model") = i
     /\ Len(errors) = i

\* a retryable 5xx on the first candidate, then a 401 on the second
C6_Witness ==
  /\ pc = "done"
  /\ Len(errors) = 2
  /\ errors[1].status = 503
  /\ completionResponse.status = 401
  /\ Last(out) = ErrorFrame(MUnauthorized, 401)

\* C7: after a non-success response the loop has moved to the next
\* candidate exactly when the response is retryable as the specification
\* words it (status >= 500, or one of the four phrases in the extracted
\* message, compared case-insensitively); otherwise the request was aborted
\* with an error frame.
C7_RetryIffTransient ==
  GotErrorResponse
  => LET retryable == ClaimRetryable(completionResponse.status, ResponseMessage)
     IN /\ retryable <=> (i = Len(errors) + 1)
        /\ ~retryable <=> (i = Len(errors) /\ pc = "done" /\ Last(out).type = "error")

\* a 401 whose message holds a phrase in another letter case is retried
C7_Witness ==
  /\ GotErrorResponse
  /\ completionResponse.status = 401
  /\ ResponseMessage = MProvider
  /\ pc = "fetch"
  /\ Len(requests) = 2

\* The aggregated message as the specification words it.
RECURSIVE ClaimLaterRecords(_)
ClaimLaterRecords(es) ==
  IF es = <<>> THEN <<>>
  ELSE <<Separator, Head(es).model, Colon>> \o Head(es).message
       \o ClaimLaterRecords(Tail(es))

\* C8: a request that exhausted its candidates wrote exactly one error
\* frame; its status is the first failure record's (502 without records),
\* its message is the first record's message followed, for every later
\* record in order, by the separator and "<model>: <message>"; the failure
\* records are one per candidate, in candidate order.
C8_ExhaustedAggregatesFailures ==
  (pc = "done" /\ i > Len(models))
  => /\ CountType(out, "error") = 1
     /\ Last(out).type = "error"
     /\ Last(out).status = (IF errors = <<>> THEN 502 ELSE errors[1].status)
     /\ errors # <<>> =>
          Last(out).error = errors[1].message \o ClaimLaterRecords(Tail(errors))
     /\ Len(errors) = Len(models)
     /\ \A k \in 1..Len(errors) : errors[k].model = models[k]

C8_Witness ==
  /\ pc = "done"
  /\ i > Len(models)
  /\ Len(errors) = 2
  /\ errors[1].status = 401
  /\ errors[2].status = 502
  /\ errors[2].message = MsgNoAnswer

\* C9: a complete frame is the last frame of a closed stream; it was
\* written after the streaming body of the last candidate attempted ended
\* without a failure, its replies are the extraction over the trimmed
\* accumulated text of that candidate, and they are not empty; the strict
\* three-element array yields its three elements.
C9_CompleteOnlyOnFinalExtraction ==
  \A k \in 1..Len(out) :
    out[k].type = "complete"
    => /\ k = Len(out)
       /\ pc = "done"
       /\ closed
       /\ ~caught
       /\ completionResponse.ok
       /\ completionResponse.hasBody
       /\ aggregated = Trim(aggregated)
       /\ out[k].replies = collectReplies(aggregated)
       /\ Len(out[k].replies) > 0
       /\ Len(requests) = i
       /\ Len(errors) = i - 1
       /\ (aggregated = TxtArray3 => out[k].replies = <<<<"A">>, <<"B">>, <<"C">>>>)

C9_Witness ==
  /\ pc = "done"
  /\ aggregated = TxtArray3
  /\ out = <<ModelFrame("m1"), PartialFrame(<<<<"A">>, <<"B">>, <<"C">>>>),
             CompleteFrame(<<<<"A">>, <<"B">>, <<"C">>>>)>>

\* A read that appended a delta to the accumulated text (a chunk of Chunks
\* holds at most one data event).
DeltaStep == pc = "read" /\ pc' = "read" /\ aggregated' # aggregated

NoEqualConsecutivePartials ==
  \A k \in 1..(Len(out) - 1) :
    (out[k].type = "partial" /\ out[k + 1].type = "partial")
    => out[k].replies # out[k + 1].replies

\* C10 as claimed: after every delta a partial frame is written exactly
\* when the recomputed list differs from the list last sent.
C10_Original ==
  [][DeltaStep =>
       LET replies == collectReplies(aggregated')
       IN IF replies # lastSent
          THEN out' = Append(out, PartialFrame(replies)) /\ lastSent' = replies
          ELSE out' = out /\ lastSent' = lastSent]_vars

\* C10: after every delta the list is recomputed from the whole accumulated
\* text, and a partial frame is written exactly when the recomputed list is
\* not empty and differs from the list last sent, which it then becomes; no
\* two consecutive partial frames carry equal lists.
C10_PartialOnNonEmptyChange ==
  /\ [][DeltaStep =>
          LET replies == collectReplies(aggregated')
          IN IF replies # <<>> /\ replies # lastSent
             THEN out' = Append(out, PartialFrame(replies)) /\ lastSent' = replies
             ELSE out' = out /\ lastSent' = lastSent]_vars
  /\ []NoEqualConsecutivePartials

\* the list went from three replies to none and no frame reported it
C10_Witness ==
  /\ pc = "read"
  /\ lastSent = <<<<"A">>, <<"B">>, <<"C">>>>
  /\ collectReplies(aggregated) = <<>>
  /\ Last(out) = PartialFrame(lastSent)

\* C11: at most one provider call or response body is open at any moment:
\* while a call is in flight or a body is being read it is the current
\* candidate's and the only one, and whenever the loop is about to issue the
\* next call, and once the handler is done, every earlier response has been
\* read to its end or has failed, whichever way the attempt ended.
C11_OneUpstreamAtATime ==
  /\ Cardinality(upstream) <= 1
  /\ pc \in {"fetch", "read"} => upstream = {i}
  /\ pc \in {"loop", "done"} => upstream = {}

\* the second call is in flight after the first one's error body, which
\* was not JSON, was read and the failure retried
C11_Witness ==
  /\ pc = "fetch"
  /\ i = 2
  /\ upstream = {2}
  /\ ~completionResponse.ok
  /\ completionResponse.body.kind = "text"

\* ---------------------------------------------------------------- consumer
\* The start callback only yields to the consumer while it awaits the
\* provider call or a read of the body.
Awaiting == pc \in {"fetch", "read"}

\* The consumer reads one frame off the output stream.
Consume ==
  /\ Awaiting \/ pc = "done"
  /\ ~cancelled
  /\ taken < Len(out)
  /\ taken' = taken + 1
  /\ UNCHANGED <<models, pc, i, out, closed, errors, requests,
                 completionResponse, attemptVars, caught, upstream, cancelled,
                 requestVars, wire, client>>

\* The consumer cancels the output stream (the client's reader.cancel, a
\* dropped connection). The stream was built with a start callback only and
\* the provider call carries no abort signal: nothing upstream is told.
Cancel ==
  /\ Awaiting
  /\ ~cancelled
  /\ cancelled' = TRUE
  /\ UNCHANGED <<models, pc, i, out, closed, errors, requests,
                 completionResponse, attemptVars, caught, upstream, taken,
                 requestVars, wire, client>>

NextConsumer ==
  \/ Next
  \/ Consume
  \/ Cancel

ConsumerSpec == Init /\ [][NextConsumer]_vars

\* C12: once the consumer has cancelled the output stream no further chunk
\* is read from the upstream body and no further provider call is issued,
\* and when the handler has stopped no call or body is left open.
C12_CancelStopsUpstream ==
  /\ [][cancelled => (reads' <= reads /\ requests' = requests)]_vars
  /\ [](cancelled /\ pc \in {"done", "failed"} => upstream = {})

\* C13: a chunk is read from the upstream body only when the consumer has
\* taken every frame written so far.
C13_FramesTakenBeforeRead ==
  [][reads' > reads => taken = Len(out)]_vars

\* ------------------------------------------------------------ the request
OpponentLines ==
  { JAbsent, JOther, JNumber(Int2Num(5)),
    JString(<<>>), JString(<<SP, NL>>),
    JString(<<"A">>), JString(<<SP, "A", SP>>) }

\* absent, another type, the numbers -3, 0, 0.5, 1, 5.5, 10, 10.5, 11 and
\* the infinities (1e999 in the body), and the strings "", "x", "0", "5",
\* "5.5", "10", "15", "-2", " 7", "7x"
Intensities ==
  { JAbsent, JOther }
  \cup { JNumber(Fin(t)) : t \in {-6, 0, 1, 2, 11, 20, 21, 22} }
  \cup { JNumber(PosInf), JNumber(NegInf) }
  \cup { JString(s) : s \in { <<>>, <<"x">>, <<"0">>, <<"5">>, <<"5", ".", "5">>,
                              <<"1", "0">>, <<"1", "5">>, <<"-", "2">>,
                              <<SP, "7">>, <<"7", "x">> } }

RequestBodies ==
  {BodyThrows} \cup {BodyObject(line, level) : line \in OpponentLines, level \in Intensities}

ApiKeys == {"", "key"}

\* POST is entered: nothing is parsed yet (parsedIntensity holds NaN until
\* it is assigned) and the provider is given at most one candidate.
InitRequest ==
  /\ requestJson \in RequestBodies
  /\ apiKey \in ApiKeys
  /\ trimmedOpponentLine = <<>>
  /\ parsedIntensity = NaN
  /\ httpResponse = NoHttpResponse
  /\ models \in {m \in ModelLists : Len(m) <= 1}
  /\ pc = "start"
  /\ InitPipeline

\* return NextResponse.json({error}, {status})
Reject(error, status) ==
  /\ httpResponse' = JsonError(error, status)
  /\ pc' = "returned"

\* POST up to the return of its response
Validate ==
  /\ pc = "start"
  /\ IF ~requestJson.ok
     THEN /\ Reject(MsgUnavailable, 500)
          /\ UNCHANGED <<trimmedOpponentLine, parsedIntensity>>
     ELSE IF requestJson.opponentLine.t # "string"
     THEN /\ Reject(MsgNeedString, 400)
          /\ UNCHANGED <<trimmedOpponentLine, parsedIntensity>>
     ELSE IF isBlank(requestJson.opponentLine.s)
     THEN /\ Reject(MsgNeedInput, 400)
          /\ UNCHANGED <<trimmedOpponentLine, parsedIntensity>>
     ELSE /\ trimmedOpponentLine' = Trim(requestJson.opponentLine.s)
          /\ parsedIntensity' = parseIntensity(requestJson.intensity)
          /\ IF apiKey = ""
             THEN Reject(MsgNoKey, 500)
             ELSE /\ httpResponse' = StreamResponse
                  /\ pc' = "loop"
  /\ UNCHANGED <<requestJson, apiKey, models, i, out, closed, errors, requests,
                 completionResponse, attemptVars, caught, upstream,
                 consumerVars, wire, client>>

NextRequest ==
  \/ Validate
  \/ Next

RequestSpec == InitRequest /\ [][NextRequest]_vars

\* The request's opponentLine is a string that is not empty once trimmed.
ClaimUsableLine ==
  /\ requestJson.ok
  /\ requestJson.opponentLine.t = "string"
  /\ Trim(requestJson.opponentLine.s) # <<>>

NothingSent == requests = <<>> /\ out = <<>>

\* C14: a provider call is issued and a frame stream opened only for a
\* request whose opponentLine is a string not empty once trimmed, with the
\* credential configured, and then the stream is opened; a body with any
\* other opponentLine gets a 400 JSON error and a usable one without the
\* credential a 500 JSON error, both with no provider call and no frame.
C14_CallsOnlyForValidRequests ==
  /\ (~NothingSent \/ httpResponse.kind = "stream") => (ClaimUsableLine /\ apiKey # "")
  /\ (pc # "start" /\ requestJson.ok /\ ~ClaimUsableLine) =>
       /\ httpResponse.kind = "json"
       /\ httpResponse.status = 400
       /\ httpResponse.error # <<>>
       /\ NothingSent
  /\ (pc # "start" /\ ClaimUsableLine /\ apiKey = "") =>
       /\ httpResponse.kind = "json"
       /\ httpResponse.status = 500
       /\ httpResponse.error # <<>>
       /\ NothingSent
  /\ (pc # "start" /\ ClaimUsableLine /\ apiKey # "") => httpResponse = StreamResponse

\* a line of white space only was refused although the credential is there
C14_Witness ==
  /\ pc = "returned"
  /\ requestJson.ok
  /\ requestJson.opponentLine = JString(<<SP, NL>>)
  /\ apiKey # ""
  /\ httpResponse.status = 400

\* C15: the intensity of an accepted request is an integer from 1 to 10.
C15_IntensityIntegerInRange ==
  httpResponse.kind = "stream" =>
    /\ parsedIntensity.k = "fin"
    /\ parsedIntensity.twice % 2 = 0
    /\ parsedIntensity.twice >= 2 * MIN_INTENSITY
    /\ parsedIntensity.twice <= 2 * MAX_INTENSITY

\* ------------------------------------------------- the stream of one body
MaxDeltas == 4

\* The delta texts one event may carry: [  ]  " A"  ,"B"  A  a line feed
\* with a sentence  <think>  </think>
QuotedA == <<DQ, SP, "A", DQ>>
CommaQuotedB == <<CM, DQ, "B", DQ>>
LineSentence == <<NL, SENT>>

DeltaTexts ==
  { <<LB>>, <<RB>>, QuotedA, CommaQuotedB, <<"A">>, LineSentence, <<TO>>, <<TC>> }

\* The only candidate's call has returned a response with a body and the
\* reader is set up: the state the read loop starts in.
InitStream ==
  /\ requestJson = BodyObject(JString(<<"A">>), JAbsent)
  /\ apiKey = "key"
  /\ trimmedOpponentLine = <<"A">>
  /\ parsedIntensity = Int2Num(DEFAULT_INTENSITY)
  /\ httpResponse = StreamResponse
  /\ models = <<"m1">>
  /\ pc = "read"
  /\ i = 1
  /\ out = <<ModelFrame("m1")>>
  /\ closed = FALSE
  /\ errors = <<>>
  /\ requests = <<"m1">>
  /\ completionResponse = [ok |-> TRUE, status |-> 200, body |-> FailBody, hasBody |-> TRUE]
  /\ buffer = <<>>
  /\ aggregated = <<>>
  /\ lastSent = <<>>
  /\ reads = 0
  /\ caught = FALSE
  /\ upstream = {1}
  /\ cancelled = FALSE
  /\ taken = 0
  /\ wire = NoWire
  /\ client = NoClient

\* reader.read() yields a chunk that is one event with one delta
ReadDelta(text) ==
  /\ reads < MaxDeltas
  /\ readStep(Event(DeltaPayload(text)))
  /\ UNCHANGED <<wire, client>>

NextStream ==
  \/ \E text \in DeltaTexts : ReadDelta(text)
  \/ ReadDone
  \/ Exhausted

StreamSpec == InitStream /\ [][NextStream]_vars

ReplyFrames == {k \in 1..Len(out) : out[k].type \in {"partial", "complete"}}

\* C16: every partial and every complete frame carries one to three
\* replies, each of them a non-empty string with no white space at its ends.
C16_FramesCarryOneToThreeReplies ==
  \A k \in ReplyFrames :
    /\ Len(out[k].replies) \in 1..3
    /\ \A j \in 1..Len(out[k].replies) :
         /\ out[k].replies[j] # <<>>
         /\ Trim(out[k].replies[j]) = out[k].replies[j]

\* the text holds four sentences on four lines and the frame three of them
C16_Witness ==
  /\ pc = "read"
  /\ aggregated = LineSentence \o LineSentence \o LineSentence \o LineSentence
  /\ Last(out) = PartialFrame(<<<<SENT>>, <<SENT>>, <<SENT>>>>)

\* raw.slice(raw.indexOf("["), raw.lastIndexOf("]") + 1) as the claim words it
ClaimBracketSpan(text) ==
  LET first == {k \in 1..Len(text) : text[k] = LB}
      last == {k \in 1..Len(text) : text[k] = RB}
  IN IF first = {} \/ last = {} \/ SetMax(last) < SetMin(first) THEN <<>>
     ELSE SubSeq(text, SetMin(first), SetMax(last))

\* Here it is: ["A","B"] thanks
TxtEmbedded ==
  <<"A", SP, "B", SP, "C", SP, LB, DQ, "A", DQ, CM, DQ, "B", DQ, RB, SP, "A">>

\* C17: the replies of a text are those of the first of three strategies
\* that yields any, tried in this order on the sanitized text: the whole
\* text parsed as a JSON array, the span from its first [ to its last ]
\* parsed as a JSON array, the split into lines; a parse that fails yields
\* none. ["A","B","C"] gives A, B, C and an array of A and B between
\* other words gives A, B.
C17_StrategiesInOrder ==
  /\ LET text == sanitizeContent(aggregated)
         strict == tryParseJsonArray(text)
         embedded == tryParseJsonArray(ClaimBracketSpan(text))
         replies == collectReplies(aggregated)
     IN /\ strict # <<>> => replies = strict
        /\ (strict = <<>> /\ embedded # <<>>) => replies = embedded
        /\ (strict = <<>> /\ embedded = <<>>) => replies = fallbackSplit(text)
        /\ (pc = "read" /\ replies # <<>>) => lastSent = replies
  /\ collectReplies(TxtArray3) = <<<<"A">>, <<"B">>, <<"C">>>>
  /\ collectReplies(TxtEmbedded) = <<<<"A">>, <<"B">>>>

\* the array stands after another word: the whole text is no JSON, the
\* bracket span is, and its reply was sent
C17_Witness ==
  /\ pc = "read"
  /\ aggregated = <<"A", LB>> \o QuotedA \o <<RB>>
  /\ tryParseJsonArray(sanitizeContent(aggregated)) = <<>>
  /\ Last(out) = PartialFrame(<<<<"A">>>>)

\* The text outside think blocks, a block running from <think> to the next
\* </think> or, when none follows, to the end of the text.
RECURSIVE ClaimOutsideThink(_)
ClaimOutsideThink(s) ==
  LET opens == {k \in 1..Len(s) : s[k] = TO}
  IN IF opens = {} THEN s
     ELSE LET a == SetMin(opens)
              closes == {k \in (a + 1)..Len(s) : s[k] = TC}
          IN IF closes = {} THEN SubSeq(s, 1, a - 1)
             ELSE SubSeq(s, 1, a - 1)
                    \o ClaimOutsideThink(SubSeq(s, SetMin(closes) + 1, Len(s)))

\* C18: a frame that is written carries the replies of the text outside
\* think blocks, unterminated blocks included: nothing of a think block is
\* shown.
C18_ThinkNeverShown ==
  [][(out' # out /\ Last(out').type \in {"partial", "complete"}) =>
       Last(out').replies = collectReplies(ClaimOutsideThink(aggregated'))]_vars

\* A read of the body rejects after some delta text has arrived.
MidStreamFailure == pc = "read" /\ aggregated # <<>> /\ ~caught /\ caught'

\* C19 as claimed: when the body fails mid-stream the handler falls through
\* to the next candidate.
C19_Original ==
  [][MidStreamFailure => (pc' = "loop" /\ i' = i + 1)]_vars

\* C19: when a read of the body rejects after some delta text, the handler
\* does not fall through: it writes the generic error frame with status 500
\* after the frames already sent, closes the stream and is done, records no
\* failure and issues no further provider call.
C19_MidStreamFailureTerminates ==
  /\ [][MidStreamFailure =>
          /\ out' = Append(out, ErrorFrame(MsgUnavailable, 500))
          /\ closed'
          /\ pc' = "done"
          /\ errors' = errors
          /\ requests' = requests
          /\ i' = i]_vars
  /\ []((caught /\ completionResponse.ok /\ completionResponse.hasBody) =>
          (pc = "done" /\ Len(requests) = i))

\* the first of two candidates failed after a partial frame and the second
\* was never called
C19_Witness ==
  /\ caught
  /\ completionResponse.ok
  /\ completionResponse.hasBody
  /\ HasPartial
  /\ Len(models) = 2
  /\ requests = <<models[1]>>
  /\ Last(out) = ErrorFrame(MsgUnavailable, 500)

\* C20: the failure recorded for a non-success response carries the message
\* of its body parsed as JSON or, when the body is not JSON, the message
\* that is its raw text, and the failure is retried or not by that message.
C20_MessageFromJsonOrRawText ==
  [][(pc = "fetch" /\ errors' # errors /\ ~completionResponse'.ok) =>
       LET body == completionResponse'.body
           status == completionResponse'.status
           message == Last(errors').message
       IN /\ body.kind = "json" => message = extractErrorMessage(body.payload)
          /\ body.kind = "text" =>
               /\ message = extractErrorMessage(ErrObject(Str(body.text), Absent))
               /\ ClaimRetryable(status, message) <=> pc' = "loop"]_vars

\* ------------------------------------------------ the shapes of a payload
PartsContent == CParts(<<CStr(<<SENT>>), CTextObj(<<SENT>>), CObject>>)

\* delta.content a string; delta.content a list of parts; only a message
\* with string content; a delta without the key content beside such a
\* message; a delta whose content is null beside such a message; no choices
StreamPayloads ==
  { DeltaPayload(LineSentence),
    Payload(TRUE, TRUE, TRUE, PartsContent, FALSE, CNone, CNone),
    MessagePayload(LineSentence),
    Payload(TRUE, TRUE, FALSE, CNone, TRUE, CObject, CStr(LineSentence)),
    Payload(TRUE, TRUE, TRUE, CNone, TRUE, CObject, CStr(LineSentence)),
    NoPayload }

\* reader.read() yields a chunk that is one event with this payload
ReadPayload(p) ==
  /\ reads < MaxDeltas
  /\ readStep(Event(p))
  /\ UNCHANGED <<wire, client>>

NextPayload ==
  \/ \E p \in StreamPayloads : ReadPayload(p)
  \/ ReadDone
  \/ Exhausted

PayloadSpec == InitStream /\ [][NextPayload]_vars

\* The delta text as the claim words it: the delta's content when the
\* delta has one, else the content of the message when there is a message.
ClaimDeltaText(p) ==
  IF ~p.hasChoices THEN <<>>
  ELSE IF p.deltaObj /\ p.hasContent THEN extractMessageContent(p.content)
  ELSE IF p.messageObj THEN extractMessageContent(p.mcontent)
  ELSE <<>>

\* C21: the text appended for a payload is its delta content, a string or
\* the texts of a list of parts, or without delta content the content of
\* its message: a payload with only a message of string content appends
\* that content.
C21_DeltaTextFromDeltaOrMessage ==
  [][\A p \in StreamPayloads :
       ReadPayload(p) => aggregated' = aggregated \o ClaimDeltaText(p)]_vars

\* ------------------------------------------ a body cut into read chunks
DoneEvent == <<WDATA, WSP, WDONE, WNL, WNL>>

\* two sentence deltas and the sentinel; one data event with no line feed
\* after it; a second event ended by a single line feed; an array and a
\* stray bracket, which leave no reply; one event of two data lines
Bodies ==
  { Event(DeltaPayload(LineSentence)) \o Event(DeltaPayload(LineSentence)) \o DoneEvent,
    <<WDATA, WSP, WJSON(DeltaPayload(LineSentence))>>,
    Event(DeltaPayload(LineSentence))
      \o <<WDATA, WSP, WJSON(DeltaPayload(LineSentence)), WNL>>,
    Event(DeltaPayload(TxtArray3)) \o Event(DeltaPayload(TxtClose)),
    <<WDATA, WSP, WJSON(DeltaPayload(LineSentence)), WNL,
      WDATA, WJSON(DeltaPayload(LineSentence)), WNL, WNL>> }

\* the response carries one of the bodies
FetchWire(body) == responseWithBody([all |-> body, pos |-> 0, half |-> FALSE])

\* The items one read delivers: the rest of a JSON text the last read cut,
\* the items up to position to, and the first part of the JSON text after
\* them when the read ends inside it.
CutChunk(to, inside) ==
  (IF wire.half
   THEN <<WTAIL(wire.all[wire.pos + 1].p)>> \o SubSeq(wire.all, wire.pos + 2, to)
   ELSE SubSeq(wire.all, wire.pos + 1, to))
  \o (IF inside THEN <<WHEAD(wire.all[to + 1].p)>> ELSE <<>>)

\* reader.read() yields the next bytes of the body, cut anywhere
ReadCut(to, inside) ==
  /\ pc = "read"
  /\ to >= wire.pos + (IF wire.half THEN 1 ELSE 0)
  /\ to > wire.pos \/ inside
  /\ inside => (to < Len(wire.all) /\ wire.all[to + 1].k = "json")
  /\ readStep(CutChunk(to, inside))
  /\ wire' = [wire EXCEPT !.pos = to, !.half = inside]
  /\ UNCHANGED client

\* reader.read() yields done once the whole body was delivered
ReadEnd ==
  /\ wire.pos = Len(wire.all)
  /\ ~wire.half
  /\ ReadDone

NextWire ==
  \/ StartAttempt
  \/ Exhausted
  \/ \E body \in Bodies : FetchWire(body)
  \/ \E to \in 0..Len(wire.all), inside \in BOOLEAN : ReadCut(to, inside)
  \/ ReadEnd

WireSpec == Init /\ [][NextWire]_vars

\* What has been delivered of the body so far.
Delivered ==
  SubSeq(wire.all, 1, wire.pos)
  \o (IF wire.half THEN <<WHEAD(wire.all[wire.pos + 1].p)>> ELSE <<>>)

\* The attempt's state had these items come in one read.
InOneRead(items) ==
  LET events == SplitEvents(items)
  IN processEvents(SubSeq(events, 1, Len(events) - 1),
                   [aggregated |-> <<>>, lastSent |-> <<>>, sent |-> <<>>])

\* the frames written since the last model frame
AttemptFrames ==
  LET at == {k \in 1..Len(out) : out[k].type = "model"}
  IN IF at = {} THEN out ELSE SubSeq(out, SetMax(at) + 1, Len(out))

\* C22: however the delivered bytes were cut into reads, the frames of the
\* attempt, its accumulated text and its last-sent list are those of a
\* single read of the same bytes, and the buffer holds the unfinished last
\* event.
C22_CutsDoNotMatter ==
  pc = "read" =>
    LET whole == InOneRead(Delivered)
        events == SplitEvents(Delivered)
    IN /\ AttemptFrames = whole.sent
       /\ aggregated = whole.aggregated
       /\ lastSent = whole.lastSent
       /\ buffer = events[Len(events)]

\* the body of two deltas and the sentinel came whole in three reads and
\* both partial frames were written
C22_Witness ==
  /\ pc = "read"
  /\ reads = 3
  /\ Len(wire.all) = 15
  /\ wire.pos = 15
  /\ buffer = <<>>
  /\ Len(AttemptFrames) = 2

\* The reply frames the body of the current response can give rise to: the
\* partial frames of a single read of the whole body and the complete frame
\* of its text.
FramesOfBody ==
  LET fromBody == InOneRead(wire.all)
  IN {fromBody.sent[k] : k \in 1..Len(fromBody.sent)}
     \cup {CompleteFrame(collectReplies(Trim(fromBody.aggregated)))}

\* C23: an attempt starts with the accumulated text, the buffer and the
\* last-sent list empty, and every frame written since the latest model
\* frame comes from the body of that candidate's response alone.
C23_AttemptStartsEmpty ==
  /\ [][(pc = "fetch" /\ pc' = "read") =>
          (aggregated' = <<>> /\ buffer' = <<>> /\ lastSent' = <<>>)]_vars
  /\ [](\A k \in 1..Len(AttemptFrames) :
         AttemptFrames[k].type \in {"partial", "complete"} =>
           AttemptFrames[k] \in FramesOfBody)

\* the first candidate's array was sent and lost to a stray bracket; the
\* second candidate's reply holds its own sentence only
C23_Witness ==
  /\ i = 2
  /\ pc = "read"
  /\ \E k \in 1..Len(out) : out[k] = PartialFrame(<<<<"A">>, <<"B">>, <<"C">>>>)
  /\ AttemptFrames = <<PartialFrame(<<<<SENT>>>>)>>

\* C24: a complete frame is never the first frame of its attempt: the frame
\* written just before it is a partial frame with the same replies.
C24_CompleteRepeatsLastPartial ==
  \A k \in 1..Len(out) :
    out[k].type = "complete" =>
      /\ k > 1
      /\ out[k - 1] = PartialFrame(out[k].replies)

\* the replies changed while the text grew, a later delta changed nothing,
\* and the complete frame repeats the second partial frame
C24_Witness ==
  /\ pc = "done"
  /\ reads >= 3
  /\ Len(out) = 4
  /\ out[2].type = "partial"
  /\ out[3].type = "partial"
  /\ out[4].type = "complete"
  /\ out[3].replies = out[4].replies

\* A body whose only data event is not followed by a blank line.
UnterminatedOnly == <<WDATA, WSP, WJSON(DeltaPayload(LineSentence))>>

\* The delivered bytes up to and including the last blank-line delimiter.
ClaimTerminated(items) ==
  LET at == {k \in 1..(Len(items) - 1) : items[k] = WNL /\ items[k + 1] = WNL}
  IN IF at = {} THEN <<>> ELSE SubSeq(items, 1, SetMax(at) + 1)

\* C25: what follows the last blank line of the body is never parsed: the
\* text and the frames of the attempt are those of the terminated events
\* alone, and a response whose only data event has no blank line after it
\* ends as a 502 no-usable-answer failure and moves on to the next candidate.
C25_UnterminatedEventIgnored ==
  /\ [](pc = "read" =>
          LET whole == InOneRead(ClaimTerminated(Delivered))
          IN /\ aggregated = whole.aggregated
             /\ AttemptFrames = whole.sent)
  /\ [][(pc = "read" /\ wire.all = UnterminatedOnly /\ pc' # "read") =>
          /\ aggregated' = <<>>
          /\ errors' = Append(errors, FailureRecord(models[i], 502, MsgNoAnswer))
          /\ out' = out
          /\ pc' = "loop"
          /\ i' = i + 1]_vars

\* the body ended with the only event still in the buffer; the failure is
\* recorded and the second candidate is next
C25_Witness ==
  /\ pc = "loop"
  /\ i = 2
  /\ wire.all = UnterminatedOnly
  /\ buffer = UnterminatedOnly
  /\ errors = <<FailureRecord(models[1], 502, MsgNoAnswer)>>

\* ===================================================================
\* The page (part_001): handleSubmit and consumeStream
\* ===================================================================
\* The number of chunks the page reads from one response.
MaxChunks == 3

MsgFailed == <<"MSG_GENERATE_FAILED">>
MsgNothing == <<"MSG_MODEL_RETURNED_NOTHING">>
MsgTellMe == <<"MSG_TELL_ME_THE_LINE">>
MsgPolicy == <<"MSG_ENABLE_DATA_SHARING">>
MsgProviderDown == <<"MSG_PROVIDER_DOWN">>
MsgNetwork == <<"network", SP, "error">>
PolicyPhrase ==
  <<"No", SP, "endpoints", SP, "found", SP, "matching", SP, "your", SP,
    "data", SP, "policy">>

\* The value of a line of the stream once parsed: an object with its type,
\* replies and error members, or something that is not an object.
FrameValue(type, replies) ==
  [obj |-> TRUE, type |-> type, isArray |-> TRUE, replies |-> replies,
   error |-> JAbsent]
ErrorValue(e) ==
  [obj |-> TRUE, type |-> "error", isArray |-> FALSE, replies |-> <<>>,
   error |-> e]
ModelValue ==
  [obj |-> TRUE, type |-> "model", isArray |-> FALSE, replies |-> <<>>,
   error |-> JAbsent]
NumberValue ==
  [obj |-> FALSE, type |-> "", isArray |-> FALSE, replies |-> <<>>,
   error |-> JAbsent]

\* candidate.filter(string with text).slice(0, 3).map({id, text})
normalizeReplyPayload(candidate) ==
  LET kept == SelectSeq(candidate,
                        LAMBDA reply : reply.t = "string" /\ Trim(reply.s) # <<>>)
      first == IF Len(kept) <= 3 THEN kept ELSE SubSeq(kept, 1, 3)
  IN [idx \in 1..Len(first) |-> [id |-> idx, text |-> Trim(first[idx].s)]]

transformServerMessage(raw) ==
  LET message == Trim(raw)
  IN IF message = <<>> THEN MsgFailed
     ELSE IF includes(message, PolicyPhrase) THEN MsgPolicy
     ELSE IF includes(toLowerCase(message), PhraseProviderReturnedError)
          THEN MsgProviderDown
          ELSE message

\* problem: what safeJson gave, null or an object with its error member
normalizeErrorMessage(problem) ==
  IF problem.isNull \/ problem.error.t = "absent" THEN MsgFailed
  ELSE IF problem.error.t \in {"string", "message"}
       THEN transformServerMessage(problem.error.s)
       ELSE MsgFailed

\* The locals of consumeStream while a chunk is processed:
\* st = [replies, finalReplies, thrown, message].
pageProcessLine(line, st) ==
  LET trimmed == TrimWire(line)
  IN IF trimmed = <<>> THEN st
     ELSE IF Len(trimmed) # 1 \/ trimmed[1].k # "json" THEN st
     ELSE LET payload == trimmed[1].p
          IN IF ~payload.obj THEN st
             ELSE IF payload.type = "partial" /\ payload.isArray
             THEN LET partial == normalizeReplyPayload(payload.replies)
                  IN IF Len(partial) > 0
                     THEN [st EXCEPT !.replies = partial]
                     ELSE st
             ELSE IF payload.type = "complete" /\ payload.isArray
             THEN LET final == normalizeReplyPayload(payload.replies)
                  IN IF Len(final) > 0
                     THEN [st EXCEPT !.replies = final,
                                     !.finalReplies = [set |-> TRUE, list |-> final]]
                     ELSE st
             ELSE IF payload.type = "error"
             THEN [st EXCEPT !.thrown = TRUE,
                             !.message =
                               IF payload.error.t = "string"
                                  /\ Trim(payload.error.s) # <<>>
                               THEN Trim(payload.error.s)
                               ELSE MsgFailed]
             ELSE st

\* for (const line of lines) processLine(line): a throw leaves the loop
RECURSIVE pageProcessLines(_, _)
pageProcessLines(lines, st) ==
  IF lines = <<>> \/ st.thrown THEN st
  ELSE pageProcessLines(Tail(lines), pageProcessLine(Head(lines), st))

Locals(c) ==
  [replies |-> c.replies, finalReplies |-> c.finalReplies,
   thrown |-> FALSE, message |-> <<>>]

\* catch (requestError) { setError(message); setReplies([]) } finally
\* { setLoading(false) }
Failed(c, message) ==
  [c EXCEPT !.error = message, !.replies = <<>>, !.loading = FALSE,
            !.pc = "done"]

\* The lines a stream may hold and the chunks a read may deliver: a line
\* without its line feed, a line with its line feed, or a line feed alone.
PageLines ==
  { <<WJSON(FrameValue("partial", <<JString(<<"A">>)>>))>>,
    <<WJSON(FrameValue("partial", <<JString(<<SP, "B">>), JOther>>))>>,
    <<WJSON(FrameValue("complete", <<JString(<<"A", SP>>)>>))>>,
    <<WJSON(FrameValue("complete", <<JString(<<SP>>)>>))>>,
    <<WJSON(ErrorValue(JString(<<"E", SP>>)))>>,
    <<WJSON(ErrorValue(JOther))>>,
    <<WJSON(ModelValue)>>,
    <<WJSON(NumberValue)>>,
    <<WTXT>> }

PageChunks ==
  PageLines \cup {line \o <<WNL>> : line \in PageLines} \cup {<<WNL>>}

\* What fetch gives the page: a stream, an error status with what safeJson
\* read from it, a JSON answer, or a rejection.
PageResponse(kind, problem, replies) ==
  [kind |-> kind, problem |-> problem, replies |-> replies]
Problem(isNull, error) == [isNull |-> isNull, error |-> error]

PageResponses ==
  { PageResponse("stream", Problem(TRUE, JAbsent), <<>>),
    PageResponse("rejected", Problem(TRUE, JAbsent), <<>>),
    PageResponse("notOk", Problem(TRUE, JAbsent), <<>>),
    PageResponse("notOk", Problem(FALSE, JString(<<SP, "Provider", SP, "returned", SP, "error">>)), <<>>),
    PageResponse("notOk", Problem(FALSE, JString(PolicyPhrase)), <<>>),
    PageResponse("notOk", Problem(FALSE, JString(<<"E">>)), <<>>),
    PageResponse("notOk", Problem(FALSE, JOther), <<>>),
    PageResponse("json", Problem(TRUE, JAbsent), <<JString(<<"A">>)>>),
    PageResponse("json", Problem(TRUE, JAbsent), <<>>) }

\* handleSubmit with a blank line: the message is shown and nothing is sent
SubmitBlank ==
  /\ ~client.loading
  /\ client' = [client EXCEPT !.error = MsgTellMe, !.pc = "idle"]
  /\ UNCHANGED <<requestVars, models, pc, i, out, closed, errors, requests,
                 completionResponse, attemptVars, caught, upstream,
                 consumerVars, wire>>

\* handleSubmit up to the first read of the stream, or to its end when the
\* response is not a stream
handleSubmit(response) ==
  /\ ~client.loading
  /\ LET started == [NoClient EXCEPT !.loading = TRUE]
     IN client' =
          IF response.kind = "rejected" THEN Failed(started, MsgNetwork)
          ELSE IF response.kind = "notOk"
          THEN Failed(started, normalizeErrorMessage(response.problem))
          ELSE IF response.kind = "json"
          THEN LET nextReplies == normalizeReplyPayload(response.replies)
               IN IF Len(nextReplies) = 0 THEN Failed(started, MsgNothing)
                  ELSE [started EXCEPT !.replies = nextReplies,
                                       !.loading = FALSE, !.pc = "done"]
          ELSE [started EXCEPT !.pc = "read", !.streamed = TRUE]
  /\ UNCHANGED <<requestVars, models, pc, i, out, closed, errors, requests,
                 completionResponse, attemptVars, caught, upstream,
                 consumerVars, wire>>

\* reader.read() gives a chunk: the complete lines are processed and the
\* rest stays in the buffer; a throw ends the submission in the catch
PageRead(value) ==
  /\ client.pc = "read"
  /\ client.reads < MaxChunks
  /\ LET lines == SplitWireLines(client.buffer \o value)
         st == pageProcessLines(SubSeq(lines, 1, Len(lines) - 1), Locals(client))
         read == [client EXCEPT !.received = @ \o value, !.reads = @ + 1,
                                !.buffer = lines[Len(lines)],
                                !.replies = st.replies,
                                !.finalReplies = st.finalReplies]
     IN client' = IF st.thrown THEN Failed(read, st.message) ELSE read
  /\ UNCHANGED <<requestVars, models, pc, i, out, closed, errors, requests,
                 completionResponse, attemptVars, caught, upstream,
                 consumerVars, wire>>

\* reader.read() gives done: the rest of the buffer is processed and the
\* submission succeeds when a complete frame left replies
PageReadDone ==
  /\ client.pc = "read"
  /\ LET st == IF TrimWire(client.buffer) # <<>>
               THEN pageProcessLine(client.buffer, Locals(client))
               ELSE Locals(client)
         read == [client EXCEPT !.replies = st.replies,
                                !.finalReplies = st.finalReplies]
     IN client' =
          IF st.thrown THEN Failed(read, st.message)
          ELSE IF ~st.finalReplies.set \/ Len(st.finalReplies.list) = 0
          THEN Failed(read, MsgFailed)
          ELSE [read EXCEPT !.loading = FALSE, !.pc = "done"]
  /\ UNCHANGED <<requestVars, models, pc, i, out, closed, errors, requests,
                 completionResponse, attemptVars, caught, upstream,
                 consumerVars, wire>>

\* reader.read() rejects
PageReadThrows ==
  /\ client.pc = "read"
  /\ client' = Failed(client, MsgNetwork)
  /\ UNCHANGED <<requestVars, models, pc, i, out, closed, errors, requests,
                 completionResponse, attemptVars, caught, upstream,
                 consumerVars, wire>>

NextPage ==
  \/ SubmitBlank
  \/ \E response \in PageResponses : handleSubmit(response)
  \/ \E value \in PageChunks : PageRead(value)
  \/ PageReadDone
  \/ PageReadThrows

PageSpec == Init /\ [][NextPage]_vars

\* The frames of the received text: the values of its lines that parse to an
\* object.
ClaimFrames ==
  LET lines == SplitWireLines(client.received)
      parsed == [k \in 1..Len(lines) |-> TrimWire(lines[k])]
      frames == SelectSeq(parsed,
                          LAMBDA line : Len(line) = 1 /\ line[1].k = "json"
                                        /\ line[1].p.obj)
  IN [k \in 1..Len(frames) |-> frames[k][1].p]

ClaimCompletes ==
  {k \in 1..Len(ClaimFrames) :
     /\ ClaimFrames[k].type = "complete"
     /\ ClaimFrames[k].isArray
     /\ Len(normalizeReplyPayload(ClaimFrames[k].replies)) > 0}

ClaimPageFailed == client.error # <<>> /\ client.replies = <<>>

ClaimPageSucceeded ==
  /\ client.error = <<>>
  /\ \E k \in ClaimCompletes :
       client.replies = normalizeReplyPayload(ClaimFrames[k].replies)

ClaimPageEnd ==
  /\ ~client.loading
  /\ ClaimPageSucceeded \/ ClaimPageFailed
  /\ ~(ClaimPageSucceeded /\ ClaimPageFailed)
  /\ ((\E k \in 1..Len(ClaimFrames) : ClaimFrames[k].type = "error")
      \/ ClaimCompletes = {}) => ClaimPageFailed

====
